---- MODULE Spec2Model ----
(***************************************************************************)
(* opcda-to-mqtt: the worker pool (OpenOpcWorker), the MQTT publisher      *)
(* (PahoBroker) and the Bridge that drives them.                            *)
(*                                                                         *)
(* OpenOpcWorker and PahoBroker are translated from                        *)
(* opcda_to_mqtt/sync/openopc_worker.py and opcda_to_mqtt/mqtt/paho.py.    *)
(* Bridge, TimerThread, TaskQueue and Task are not part of the available   *)
(* sources; they are modelled from the specification's sections 4.2, 4.4,  *)
(* 4.6 and 5.                                                              *)
(***************************************************************************)
EXTENDS Integers, Sequences, FiniteSets

\* ------------------------------------------------------------- bounds
NumWorkers == 2      \* size of the Bridge's worker pool
NumTags    == 2      \* number of tag paths given to Bridge.start
MaxTicks   == 2      \* timer ticks modelled before the timer falls silent
MaxClients == 3      \* mqtt.Client objects PahoBroker.connect may construct
MaxPuts    == 3      \* items a caller driving workers directly puts on the queue
MaxCalls   == 3      \* calls made on a ConsoleBroker

Workers   == 1..NumWorkers
Tags      == 1..NumTags
ClientIds == 1..MaxClients

\* queue.put(None): the end-of-work marker; a task is the index of its tag
Sentinel == 0
\* self._client = None
None == 0

VARIABLES
    \* ---- PahoBroker (mqtt/paho.py)
    broker_client,  \* self._client: None or the id of an mqtt.Client
    made,           \* number of mqtt.Client objects constructed so far
    mq,             \* the paho clients: id -> [sock, loop]
    established,    \* TRUE iff the latest connect/disconnect call was a
                    \* connect() that returned Connected
    \* ---- a caller exercising the broker by itself
    last,           \* the caller's most recent call and what it returned
    prev,           \* the call before it
    \* ---- OpenOpcWorker (sync/openopc_worker.py), one per worker
    pc,             \* position of the worker's thread in _run
    client,         \* the local variable client of _run (0: not created)
    task,           \* the local variable task of _run (0: none held)
    markers,        \* number of sentinels the thread has dequeued
    took,           \* the thread has dequeued an item
    ran,            \* the thread has called task.execute
    exc,            \* the exception that ended _run, if any
    \* ---- the OPC clients the workers create
    opc_made,       \* number of OpenOPC.client() objects constructed
    opc_owner,      \* OPC client id -> the worker thread that created it
    opc_users,      \* OPC client id -> the threads that have called into it
    opc_closes,     \* OPC client id -> number of close() calls
    \* ---- TaskQueue, TimerThread, Bridge
    queue,          \* TaskQueue: FIFO of tasks and sentinels
    timer_on,       \* TimerThread is started and not cancelled
    ticks,          \* timer ticks fired so far
    bstate,         \* Bridge state: Idle, Running, Stopping
    bpc,            \* position of the thread calling Bridge.start / stop
    bi,             \* loop index of that thread over the worker pool
    joined,         \* workers whose join() has returned
    stop_midtask,   \* a worker was executing a task when stop() was invoked
    \* ---- counts of what went through the queue and the tasks
    enqueued,       \* number of queue.put calls so far
    dequeued,       \* number of queue.get calls that have returned
    recorded,       \* tag -> publish attempts the broker has seen for it
    failed,         \* tag -> tasks that ended without a publish attempt
    got,            \* worker -> tasks its get() calls have returned
    idle_at_tick,   \* workers blocked in get() when the first tick fired
    \* ---- what a run is set up to observe and exercise
    probe,          \* what is being counted: "off", the publish attempts
                    \* per tag ("publishes") or the tasks per worker ("shares")
    stop_req,       \* worker -> "no", or how the latest stop() call found
                    \* it: "waiting" in get() on an empty queue, or "called"
    console_log     \* the calls made on a ConsoleBroker, with their Results

brokerVars == <<broker_client, made, mq, established>>
callVars   == <<last, prev>>
workerVars == <<pc, client, task, markers, took, ran, exc>>
opcVars    == <<opc_made, opc_owner, opc_users, opc_closes>>
bridgeVars == <<queue, timer_on, ticks, bstate, bpc, bi, joined, stop_midtask>>
countVars  == <<enqueued, dequeued, recorded, failed, got, idle_at_tick>>
setupVars  == <<probe, stop_req, console_log>>
vars       == <<brokerVars, callVars, workerVars, opcVars, bridgeVars,
                countVars, setupVars>>

\* ============================================================ PahoBroker

NoCall == [op |-> "none", res |-> "none", under |-> "none", pre |-> None]

\* A call's record: the operation, the Result returned, what the underlying
\* paho client did, and self._client as the call found it.
Call(op, res, under, pre) == [op |-> op, res |-> res, under |-> under, pre |-> pre]

NewClient == [sock |-> FALSE, loop |-> "none"]

\* paho.py:35-45 __init__
BrokerInit ==
    /\ broker_client = None
    /\ made = 0
    /\ mq = [c \in ClientIds |-> NewClient]
    /\ established = FALSE
    /\ last = NoCall
    /\ prev = NoCall

\* Where connect() can fail: the import or the constructor (before
\* self._client is assigned), client.connect, client.loop_start.
ConnectOutcomes == {"ok", "import_raises", "connect_raises", "loop_start_raises"}

\* A connect that swallows what the client raises and reports success
ConnectResultAlwaysRight(o) == "Connected"

\* paho.py:63-69: Right(Connected()), or the except clause's Problem
ConnectResult(o) == IF o = "ok" THEN "Connected" ELSE "ConnectProblem"

\* paho.py:47-69 connect
Connect(o) ==
    /\ made < MaxClients
    /\ IF o = "import_raises"
       THEN UNCHANGED <<broker_client, made, mq>>
       ELSE LET c == made + 1 IN
            /\ made' = c
            /\ broker_client' = c
            /\ mq' = [mq EXCEPT ![c] =
                        [sock |-> (o # "connect_raises"),
                         loop |-> IF o = "ok" THEN "started" ELSE "none"]]
    /\ established' = (o = "ok")

\* What client.publish can do: accept (rc = 0), refuse with a result code
\* (MQTT_ERR_NO_CONN, MQTT_ERR_QUEUE_SIZE), or raise (ValueError).  A client
\* without a socket never answers rc = 0.  Without a client it is not called.
PublishOutcomes ==
    IF broker_client = None THEN {"not_called"}
    ELSE IF mq[broker_client].sock THEN {"rc0", "rc_error", "raises"}
    ELSE {"rc_error", "raises"}

\* publish without its try/except: what the client raises reaches the caller
PublishResultUncaught(u) ==
    IF broker_client = None THEN "NotConnected"
    ELSE IF u = "raises" THEN "escapes"
    ELSE "Published"

\* paho.py:100-113 publish: the Result for each thing the client does
PublishResult(u) ==
    IF broker_client = None THEN "NotConnected"
    ELSE IF u = "raises" THEN "PublishProblem"
    ELSE "Published"

\* paho.py:89-113 publish
Publish(u) ==
    /\ u \in PublishOutcomes
    /\ UNCHANGED <<broker_client, made, mq, established>>

\* What loop_stop and disconnect can do; without a client neither is called
DisconnectOutcomes ==
    IF broker_client = None THEN {"not_called"}
    ELSE {"ok", "loop_stop_raises", "disconnect_raises"}

\* paho.py:128-134: Right(Disconnected()), or the except clause's Problem
DisconnectResult(o) ==
    IF o \in {"ok", "not_called"} THEN "Disconnected" ELSE "DisconnectProblem"

\* A disconnect that never clears the handle
HandleKept(o) == broker_client

\* paho.py:123-127: self._client after the body of the if, per outcome
HandleAfterDisconnect(o) ==
    IF o = "ok" THEN None ELSE broker_client

\* paho.py:115-134 disconnect
Disconnect(o) ==
    /\ o \in DisconnectOutcomes
    /\ IF broker_client = None
       THEN UNCHANGED <<broker_client, mq>>
       ELSE LET c == broker_client IN
            /\ mq' = [mq EXCEPT ![c] =
                        [sock |-> IF o = "ok" THEN FALSE ELSE mq[c].sock,
                         loop |-> IF o # "loop_stop_raises" /\ mq[c].loop = "started"
                                  THEN "stopped" ELSE mq[c].loop]]
            /\ broker_client' = HandleAfterDisconnect(o)
    /\ established' = FALSE
    /\ UNCHANGED made

\* ========================================================= OpenOpcWorker

\* openopc_worker.py:36-51 __init__: the thread exists and is not started
WorkerInit ==
    /\ pc = [w \in Workers |-> "init"]
    /\ client = [w \in Workers |-> 0]
    /\ task = [w \in Workers |-> 0]
    /\ markers = [w \in Workers |-> 0]
    /\ took = [w \in Workers |-> FALSE]
    /\ ran = [w \in Workers |-> FALSE]
    /\ exc = [w \in Workers |-> "none"]
    /\ opc_made = 0
    /\ opc_owner = [c \in Workers |-> 0]
    /\ opc_users = [c \in Workers |-> {}]
    /\ opc_closes = [c \in Workers |-> 0]

\* openopc_worker.py:53-58 start: self._thread.start()
WorkerStart(w) ==
    /\ pc[w] = "init"
    /\ pc' = [pc EXCEPT ![w] = "connect"]

\* One client for the whole pool, as a class attribute would be: every
\* thread gets the client of the first worker
SharedOpcClient(w) == CHOOSE c \in Workers : \A d \in Workers : c <= d

\* openopc_worker.py:83 client = OpenOPC.client(): every _run constructs a
\* client of its own and keeps it in a local variable; the object is named
\* after the thread that constructs it
NewOpcClient(w) == w

\* openopc_worker.py:85-87: client.connect raises outside the try, and the
\* exception leaves _run; otherwise the loop is entered
AfterConnect(ok) == IF ok THEN "get" ELSE "done"

\* openopc_worker.py:80-86 _run up to the loop
WorkerConnect(w) ==
    /\ pc[w] = "connect"
    /\ \E ok \in BOOLEAN :
        LET c == NewOpcClient(w) IN
        /\ opc_made' = opc_made + 1
        /\ opc_owner' = [opc_owner EXCEPT ![c] = w]
        /\ opc_users' = [opc_users EXCEPT ![c] = @ \cup {w}]
        /\ client' = [client EXCEPT ![w] = c]
        /\ pc' = [pc EXCEPT ![w] = AfterConnect(ok)]
        /\ exc' = [exc EXCEPT ![w] = IF ok THEN "none" ELSE "connect"]
    /\ UNCHANGED <<task, markers, took, ran, opc_closes>>
    /\ UNCHANGED <<brokerVars, callVars, bridgeVars>>
    /\ UNCHANGED <<countVars, setupVars>>

\* A loop that takes the sentinel for one more item and waits again
AfterGetIgnoresSentinel(item) == IF item = Sentinel THEN "get" ELSE "exec"

\* A loop that drops the task it dequeued and waits for the next item
AfterGetSkipsTask(item) == IF item = Sentinel THEN "close" ELSE "get"

\* A loop that breaks after whatever it dequeued
AfterGetAlwaysBreaks(item) == "close"

\* openopc_worker.py:91-94: the sentinel breaks out of the loop into the
\* finally block, a task is executed
AfterGet(item) == IF item = Sentinel THEN "close" ELSE "exec"

\* A get that returns the newest item instead of the oldest
DequeuedNewest(q) == q[Len(q)]

\* openopc_worker.py:89 self._queue.get() returns the items in the order
\* they were put
Dequeued(q) == Head(q)

\* A get that hands out the head of the queue and leaves it there
QueueAfterPeek(q) == q

\* openopc_worker.py:89 self._queue.get() removes the item it returns
QueueAfterGet(q) == Tail(q)

\* openopc_worker.py:88-94 task = self._queue.get(), which blocks while the
\* queue is empty
WorkerGet(w) ==
    /\ pc[w] = "get"
    /\ queue # <<>>
    /\ LET item == Dequeued(queue) IN
        /\ queue' = QueueAfterGet(queue)
        /\ task' = [task EXCEPT ![w] = item]
        /\ took' = [took EXCEPT ![w] = TRUE]
        /\ markers' = [markers EXCEPT ![w] = IF item = Sentinel THEN @ + 1 ELSE @]
        /\ pc' = [pc EXCEPT ![w] = AfterGet(item)]
    /\ UNCHANGED <<client, ran, exc, opcVars, brokerVars, callVars>>
    /\ UNCHANGED <<timer_on, ticks, bstate, bpc, bi, joined, stop_midtask>>
    /\ dequeued' = dequeued + 1
    /\ got' = IF probe = "shares" /\ Dequeued(queue) # Sentinel
              THEN [got EXCEPT ![w] = @ + 1] ELSE got
    /\ UNCHANGED <<enqueued, recorded, failed, idle_at_tick, setupVars>>

\* What task.execute(client) can do: read the tag and hand the reading to
\* broker.publish, fail the read and report a Problem, or raise.
ExecuteOutcomes == {"published", "read_failed", "raises"}

\* The loop without its try/finally: a raising task ends the thread at once
AfterExecuteNoFinally(o) == IF o = "raises" THEN "done" ELSE "get"

\* openopc_worker.py:87-99: the try has no except clause; when task.execute
\* raises, the finally block runs and the exception leaves _run
AfterExecute(o) == IF o = "raises" THEN "close" ELSE "get"

\* openopc_worker.py:94-96 task.execute(client)
WorkerExecute(w) ==
    /\ pc[w] = "exec"
    /\ \E o \in ExecuteOutcomes :
        /\ IF o = "published"
           THEN \E u \in PublishOutcomes : Publish(u)
           ELSE UNCHANGED brokerVars
        /\ pc' = [pc EXCEPT ![w] = AfterExecute(o)]
        /\ exc' = [exc EXCEPT ![w] = IF o = "raises" THEN "execute" ELSE @]
        /\ recorded' = IF probe = "publishes" /\ o = "published"
                       THEN [recorded EXCEPT ![task[w]] = @ + 1] ELSE recorded
        /\ failed' = IF probe = "publishes" /\ o # "published"
                     THEN [failed EXCEPT ![task[w]] = @ + 1] ELSE failed
    /\ ran' = [ran EXCEPT ![w] = TRUE]
    /\ opc_users' = [opc_users EXCEPT ![client[w]] = @ \cup {w}]
    /\ task' = [task EXCEPT ![w] = 0]
    /\ UNCHANGED <<client, markers, took, opc_made, opc_owner, opc_closes>>
    /\ UNCHANGED <<callVars, bridgeVars>>
    /\ UNCHANGED <<enqueued, dequeued, got, idle_at_tick, setupVars>>

\* openopc_worker.py:97-100 finally: client.close(); whether it returns or
\* raises, nothing follows it in _run and the thread exits
WorkerClose(w) ==
    /\ pc[w] = "close"
    /\ opc_closes' = [opc_closes EXCEPT ![client[w]] = @ + 1]
    /\ opc_users' = [opc_users EXCEPT ![client[w]] = @ \cup {w}]
    /\ pc' = [pc EXCEPT ![w] = "done"]
    /\ UNCHANGED <<client, task, markers, took, ran, exc, opc_made, opc_owner>>
    /\ UNCHANGED <<brokerVars, callVars, bridgeVars>>
    /\ UNCHANGED <<countVars, setupVars>>

\* A join that returns without waiting for the thread
JoinReturnsAtOnce(w) == TRUE

\* openopc_worker.py:66-72 join: self._thread.join() returns once the
\* thread has exited
JoinReturns(w) == pc[w] = "done"

\* ============================================ TaskQueue, TimerThread, Bridge

BridgeInit ==
    /\ queue = <<>>
    /\ timer_on = FALSE
    /\ ticks = 0
    /\ bstate = "Idle"
    /\ bpc = "idle"
    /\ bi = 1
    /\ joined = {}
    /\ stop_midtask = FALSE
    /\ enqueued = 0
    /\ dequeued = 0
    /\ recorded = [t \in Tags |-> 0]
    /\ failed = [t \in Tags |-> 0]
    /\ got = [w \in Workers |-> 0]
    /\ idle_at_tick = {}

\* One Task per tag path, in the order of tagPaths
TickTasks == [i \in Tags |-> i]

\* Bridge.start: connect the broker; a Problem ends start in Idle
BridgeStart ==
    /\ bpc = "idle"
    /\ \E o \in ConnectOutcomes :
        /\ Connect(o)
        /\ bpc' = IF ConnectResult(o) = "Connected"
                  THEN "start_workers" ELSE "start_failed"
    /\ bi' = 1
    /\ UNCHANGED <<queue, timer_on, ticks, bstate, joined, stop_midtask>>
    /\ UNCHANGED <<callVars, workerVars, opcVars>>
    /\ UNCHANGED <<countVars, setupVars>>

\* Bridge.start: worker.start() for every worker of the pool
BridgeStartWorker ==
    /\ bpc = "start_workers"
    /\ WorkerStart(bi)
    /\ bi' = IF bi = NumWorkers THEN 1 ELSE bi + 1
    /\ bpc' = IF bi = NumWorkers THEN "start_timer" ELSE bpc
    /\ UNCHANGED <<client, task, markers, took, ran, exc>>
    /\ UNCHANGED <<queue, timer_on, ticks, bstate, joined, stop_midtask>>
    /\ UNCHANGED <<opcVars, brokerVars, callVars>>
    /\ UNCHANGED <<countVars, setupVars>>

\* Bridge.start: timer.start(interval, onTick); the bridge is Running
BridgeStartTimer ==
    /\ bpc = "start_timer"
    /\ timer_on' = TRUE
    /\ bstate' = "Running"
    /\ bpc' = "running"
    /\ UNCHANGED <<queue, ticks, bi, joined, stop_midtask>>
    /\ UNCHANGED <<workerVars, opcVars, brokerVars, callVars>>
    /\ UNCHANGED <<countVars, setupVars>>

\* The ticks a run lets the timer fire: the distribution scenario enqueues
\* its tasks once
TickLimit == IF probe = "shares" THEN 1 ELSE MaxTicks

\* TimerThread: a tick puts one Task per tag path on the queue
TimerTick ==
    /\ timer_on
    /\ ticks < TickLimit
    /\ ticks' = ticks + 1
    /\ queue' = queue \o TickTasks
    /\ UNCHANGED <<timer_on, bstate, bpc, bi, joined, stop_midtask>>
    /\ UNCHANGED <<workerVars, opcVars, brokerVars, callVars>>
    /\ enqueued' = enqueued + NumTags
    /\ idle_at_tick' = IF probe = "shares" /\ ticks = 0
                     THEN {w \in Workers : pc[w] = "get"} ELSE idle_at_tick
    /\ UNCHANGED <<dequeued, recorded, failed, got, setupVars>>

\* A timer whose stop() returns with the timer still armed
TimerNeverCancelled == TRUE

\* TimerThread.stop: whether the timer is armed once stop() has returned
TimerAfterStop == FALSE

\* Bridge.stop: Stopping, and timer.stop()
BridgeStop ==
    /\ bpc = "running"
    /\ bstate' = "Stopping"
    /\ timer_on' = TimerAfterStop
    /\ bpc' = "markers"
    /\ bi' = 1
    /\ stop_midtask' = (\E w \in Workers : pc[w] = "exec")
    /\ UNCHANGED <<queue, ticks, joined>>
    /\ UNCHANGED <<workerVars, opcVars, brokerVars, callVars>>
    /\ UNCHANGED <<countVars, setupVars>>

\* A stop that disconnects the broker without joining the workers
AfterMarkersNoJoin == "disconnect"

\* Bridge.stop: what follows the last marker is the joining of the workers
AfterMarkers == "join"

\* Bridge.stop: queue.put(None), once per worker
BridgePutMarker ==
    /\ bpc = "markers"
    /\ queue' = Append(queue, Sentinel)
    /\ bi' = IF bi = NumWorkers THEN 1 ELSE bi + 1
    /\ bpc' = IF bi = NumWorkers THEN AfterMarkers ELSE bpc
    /\ UNCHANGED <<timer_on, ticks, bstate, joined, stop_midtask>>
    /\ UNCHANGED <<workerVars, opcVars, brokerVars, callVars>>
    /\ enqueued' = enqueued + 1
    /\ UNCHANGED <<dequeued, recorded, failed, got, idle_at_tick, setupVars>>

\* Bridge.stop: worker.join() for every worker, in pool order
BridgeJoin ==
    /\ bpc = "join"
    /\ JoinReturns(bi)
    /\ joined' = joined \cup {bi}
    /\ bi' = IF bi = NumWorkers THEN 1 ELSE bi + 1
    /\ bpc' = IF bi = NumWorkers THEN "disconnect" ELSE bpc
    /\ UNCHANGED <<queue, timer_on, ticks, bstate, stop_midtask>>
    /\ UNCHANGED <<workerVars, opcVars, brokerVars, callVars>>
    /\ UNCHANGED <<countVars, setupVars>>

\* Bridge.stop: broker.disconnect(), and back to Idle
BridgeDisconnect ==
    /\ bpc = "disconnect"
    /\ \E o \in DisconnectOutcomes : Disconnect(o)
    /\ bstate' = "Idle"
    /\ bpc' = "stopped"
    /\ UNCHANGED <<queue, timer_on, ticks, bi, joined, stop_midtask>>
    /\ UNCHANGED <<callVars, workerVars, opcVars>>
    /\ UNCHANGED <<countVars, setupVars>>

\* ======================================================= specifications

\* No worker has been asked to stop and no console broker has been called
SetupInit ==
    /\ stop_req = [w \in Workers |-> "no"]
    /\ console_log = <<>>

ComponentsInit == BrokerInit /\ WorkerInit /\ BridgeInit /\ SetupInit

\* Nothing is probed unless a run is set up for it
Init == ComponentsInit /\ probe = "off"

\* The bridge run with a recording broker, as the polling scenarios do:
\* the publish attempts are counted per tag
PollInit == ComponentsInit /\ probe = "publishes"

\* The bridge run with recording workers, as the distribution scenario
\* does: the tasks received are counted per worker
ShareInit == ComponentsInit /\ probe = "shares"

WorkerStep == \E w \in Workers :
    WorkerConnect(w) \/ WorkerGet(w) \/ WorkerExecute(w) \/ WorkerClose(w)

BridgeStep ==
    \/ BridgeStart
    \/ BridgeStartWorker
    \/ BridgeStartTimer
    \/ BridgeStop
    \/ BridgePutMarker
    \/ BridgeJoin
    \/ BridgeDisconnect

Next == BridgeStep \/ TimerTick \/ WorkerStep

\* The bridge with its worker pool, timer and broker
Spec == Init /\ [][Next]_vars

\* A bridge that is started and left running
PollNext ==
    \/ BridgeStart
    \/ BridgeStartWorker
    \/ BridgeStartTimer
    \/ TimerTick
    \/ WorkerStep

PollSpec == PollInit /\ [][PollNext]_vars

ShareSpec == ShareInit /\ [][PollNext]_vars

\* The threads are scheduled: a worker thread that can take a step takes
\* it, and the thread inside Bridge.start / Bridge.stop goes on.  Nothing
\* forces a caller to invoke stop(), nor the timer to tick.
WorkerThread(w) ==
    WorkerConnect(w) \/ WorkerGet(w) \/ WorkerExecute(w) \/ WorkerClose(w)

BridgeThread ==
    \/ BridgeStartWorker
    \/ BridgeStartTimer
    \/ BridgePutMarker
    \/ BridgeJoin
    \/ BridgeDisconnect

Fairness ==
    /\ \A w \in Workers : WF_vars(WorkerThread(w))
    /\ WF_vars(BridgeThread)

FairSpec == Init /\ [][Next]_vars /\ Fairness

\* The caller's record of a call: the operation, the Result it returned and
\* what the underlying client did
Observe(op, res, under) ==
    /\ last' = Call(op, res, under, broker_client)
    /\ prev' = last

\* A caller driving one PahoBroker with any sequence of calls
CallConnect ==
    /\ \E o \in ConnectOutcomes :
        Connect(o) /\ Observe("connect", ConnectResult(o), o)
    /\ UNCHANGED <<workerVars, opcVars, bridgeVars>>
    /\ UNCHANGED <<countVars, setupVars>>

CallPublish ==
    /\ \E u \in PublishOutcomes :
        Publish(u) /\ Observe("publish", PublishResult(u), u)
    /\ UNCHANGED <<workerVars, opcVars, bridgeVars>>
    /\ UNCHANGED <<countVars, setupVars>>

CallDisconnect ==
    /\ \E o \in DisconnectOutcomes :
        Disconnect(o) /\ Observe("disconnect", DisconnectResult(o), o)
    /\ UNCHANGED <<workerVars, opcVars, bridgeVars>>
    /\ UNCHANGED <<countVars, setupVars>>

BrokerNext == CallConnect \/ CallPublish \/ CallDisconnect

BrokerSpec == Init /\ [][BrokerNext]_vars

\* ------------------------------------------ workers driven by a caller

\* A stop() that puts the end-of-work marker on the queue itself
QueueAfterStopSentinel(q) == Append(q, Sentinel)

\* openopc_worker.py:60-64 stop: a debug line and nothing else
QueueAfterStop(q) == q

\* How a stop() call finds the worker's thread
StopSeen(w) ==
    IF pc[w] = "get" /\ queue = <<>> THEN "waiting" ELSE "called"

\* openopc_worker.py:60-64 stop
WorkerStop(w) ==
    /\ stop_req' = [stop_req EXCEPT ![w] = StopSeen(w)]
    /\ queue' = QueueAfterStop(queue)
    /\ UNCHANGED <<timer_on, ticks, bstate, bpc, bi, joined, stop_midtask>>
    /\ UNCHANGED <<brokerVars, callVars, workerVars, opcVars>>
    /\ UNCHANGED <<countVars, probe, console_log>>

\* openopc_worker.py:7 worker.start(), called by the owner of the worker
StartWorker(w) ==
    /\ WorkerStart(w)
    /\ UNCHANGED <<client, task, markers, took, ran, exc>>
    /\ UNCHANGED <<brokerVars, callVars, opcVars, bridgeVars>>
    /\ UNCHANGED <<countVars, setupVars>>

\* What the caller puts: a task (for the first tag path) or the sentinel
PutItems == {TickTasks[1], Sentinel}

\* openopc_worker.py:8-9 queue.put(task), queue.put(None)
PutItem ==
    /\ enqueued < MaxPuts
    /\ \E item \in PutItems : queue' = Append(queue, item)
    /\ enqueued' = enqueued + 1
    /\ UNCHANGED <<timer_on, ticks, bstate, bpc, bi, joined, stop_midtask>>
    /\ UNCHANGED <<brokerVars, callVars, workerVars, opcVars>>
    /\ UNCHANGED <<dequeued, recorded, failed, got, idle_at_tick, setupVars>>

\* openopc_worker.py:66-72 join, returning to the caller
JoinWorker(w) ==
    /\ JoinReturns(w)
    /\ w \notin joined
    /\ joined' = joined \cup {w}
    /\ UNCHANGED <<queue, timer_on, ticks, bstate, bpc, bi, stop_midtask>>
    /\ UNCHANGED <<brokerVars, callVars, workerVars, opcVars>>
    /\ UNCHANGED <<countVars, setupVars>>

CallerStep == \E w \in Workers : StartWorker(w) \/ WorkerStop(w) \/ JoinWorker(w)

WorkerNext == CallerStep \/ PutItem \/ WorkerStep

\* Workers, their queue and a caller that starts them, feeds the queue,
\* calls stop() and joins, in any order
WorkerSpec == Init /\ [][WorkerNext]_vars

\* A started worker thread runs on, and a join() whose thread has exited
\* returns.  Nothing makes the caller put items or call stop().
WorkerFairness ==
    /\ \A w \in Workers : WF_vars(WorkerThread(w))
    /\ \A w \in Workers : WF_vars(JoinWorker(w))

FairWorkerSpec == Init /\ [][WorkerNext]_vars /\ WorkerFairness

\* --------------------------------------------------------- ConsoleBroker

Topics   == {"plant/a", "plant/b"}
Messages == {"1", "2"}

\* A console broker that, like PahoBroker, refuses to publish before connect
ConsoleResultNeedsConnect(op) ==
    IF op = "publish" /\ \A i \in 1..Len(console_log) : console_log[i].op # "connect"
    THEN "NotConnected"
    ELSE IF op = "connect" THEN "Connected"
    ELSE IF op = "publish" THEN "Published"
    ELSE "Disconnected"

\* ConsoleBroker: each operation returns Right of its marker
ConsoleResult(op) ==
    IF op = "connect" THEN "Connected"
    ELSE IF op = "publish" THEN "Published"
    ELSE "Disconnected"

\* ConsoleBroker.publish prints "<topic>: <message>"
ConsoleLine(topic, message) == <<topic, ": ", message>>

\* The record of a call on the console broker: the line it printed and the
\* Result it returned
ConsoleCall(op, line) == [op |-> op, line |-> line, res |-> ConsoleResult(op)]

ConsoleConnect ==
    /\ Len(console_log) < MaxCalls
    /\ console_log' = Append(console_log, ConsoleCall("connect", <<>>))
    /\ UNCHANGED <<brokerVars, callVars, workerVars, opcVars, bridgeVars>>
    /\ UNCHANGED <<countVars, probe, stop_req>>

ConsolePublish ==
    /\ Len(console_log) < MaxCalls
    /\ \E topic \in Topics, message \in Messages :
        console_log' = Append(console_log,
                              ConsoleCall("publish", ConsoleLine(topic, message)))
    /\ UNCHANGED <<brokerVars, callVars, workerVars, opcVars, bridgeVars>>
    /\ UNCHANGED <<countVars, probe, stop_req>>

ConsoleDisconnect ==
    /\ Len(console_log) < MaxCalls
    /\ console_log' = Append(console_log, ConsoleCall("disconnect", <<>>))
    /\ UNCHANGED <<brokerVars, callVars, workerVars, opcVars, bridgeVars>>
    /\ UNCHANGED <<countVars, probe, stop_req>>

ConsoleNext == ConsoleConnect \/ ConsolePublish \/ ConsoleDisconnect

\* A caller driving one ConsoleBroker with any sequence of calls
ConsoleSpec == Init /\ [][ConsoleNext]_vars

\* =============================================================== claims

\* C1: Bridge.stop() invoked on a running bridge always terminates: under
\* every interleaving of the timer and the worker threads, also with a task
\* in flight when stop() is invoked, every worker thread exits and every
\* join() returns.
C1_StopTerminates ==
    (bpc = "markers") ~>
        (bpc = "stopped" /\ joined = Workers /\ \A w \in Workers : pc[w] = "done")

\* stop() was invoked while a worker was executing a task, and has returned
\* with every worker joined
C1_Witness ==
    /\ stop_midtask
    /\ bpc = "stopped"
    /\ joined = Workers
    /\ \A w \in Workers : pc[w] = "done"

\* C2 as stated: every worker dequeues exactly one end-of-work marker, none
\* dequeues more than one and none terminates without having dequeued one.
C2_Original ==
    \A w \in Workers :
        /\ markers[w] <= 1
        /\ pc[w] = "done" => markers[w] = 1

\* C2 as amended: no worker dequeues more than one marker; a worker thread
\* that leaves its loop has dequeued exactly one marker, unless its initial
\* connect raised or a task's execute raised, and then it has dequeued none.
C2_MarkerPerWorker ==
    \A w \in Workers :
        /\ markers[w] <= 1
        /\ (pc[w] \in {"close", "done"} /\ exc[w] \notin {"connect", "execute"})
              => markers[w] = 1
        /\ exc[w] \in {"connect", "execute"} => markers[w] = 0

\* every worker ran tasks and ended on its one marker
C2_Witness ==
    \A w \in Workers : pc[w] = "done" /\ markers[w] = 1 /\ ran[w]

\* C3: a failure while executing a task, task.execute raising included, does
\* not end the worker thread: the worker goes on to dequeue the next item.
C3_FailureKeepsWorker ==
    \A w \in Workers : exc[w] = "execute" => pc[w] \in {"get", "exec"}

\* A worker thread that connected
Acquired(w) == client[w] # 0 /\ exc[w] # "connect"

\* C4: a worker that acquired its connection and leaves its loop, by the
\* marker or by a raising task, closes the connection exactly once, and
\* before join() on it returns.
C4_ClosedOnce ==
    \A w \in Workers :
        /\ client[w] # 0 => opc_closes[client[w]] <= 1
        /\ (Acquired(w) /\ pc[w] \in {"get", "exec", "close"})
              => opc_closes[client[w]] = 0
        /\ (Acquired(w) /\ pc[w] = "done") => opc_closes[client[w]] = 1
        /\ (Acquired(w) /\ w \in joined) => opc_closes[client[w]] = 1

\* one worker left on a raising task, another on the marker; both are joined
\* and each connection was closed once
C4_Witness ==
    \E w1, w2 \in Workers :
        /\ {w1, w2} \subseteq joined
        /\ exc[w1] = "execute" /\ opc_closes[client[w1]] = 1
        /\ markers[w2] = 1 /\ exc[w2] = "none" /\ opc_closes[client[w2]] = 1

\* C5: a worker whose initial connect fails exits having dequeued nothing
\* and executed nothing, and no other failure ends a worker thread.
C5_OnlyConnectIsFatal ==
    \A w \in Workers :
        /\ exc[w] = "connect" => (pc[w] = "done" /\ ~took[w] /\ ~ran[w])
        /\ (pc[w] = "done" /\ markers[w] = 0) => exc[w] = "connect"

\* C6: every connection is used (connect, task execution, close) only by the
\* worker thread that created it, and no two workers execute a task against
\* the same connection.
C6_ConnectionOwned ==
    /\ \A c \in Workers : opc_owner[c] # 0 => opc_users[c] \subseteq {opc_owner[c]}
    /\ \A w \in Workers : client[w] # 0 => opc_owner[client[w]] = w
    /\ \A w1, w2 \in Workers :
          (w1 # w2 /\ pc[w1] = "exec" /\ pc[w2] = "exec") => client[w1] # client[w2]

\* two workers execute tasks at the same time
C6_Witness ==
    \E w1, w2 \in Workers :
        /\ w1 # w2
        /\ pc[w1] = "exec" /\ pc[w2] = "exec"
        /\ ran[w1]

\* C7: publish() on a PahoBroker for which no connect() has succeeded (never
\* connected, the last connect() returned a Problem, or after disconnect())
\* returns the Problem "Not connected", never Published.
C7_PublishNeedsConnect ==
    (last.op = "publish" /\ ~established) => last.res = "NotConnected"

\* C8: after disconnect() returns, with Disconnected or with a Problem, the
\* broker holds no client.
C8_DisconnectReleases ==
    last.op = "disconnect" => broker_client = None

\* C9 as stated: two consecutive disconnect() calls, in any state, both
\* return Disconnected.
C9_Original ==
    (prev.op = "disconnect" /\ last.op = "disconnect")
        => (prev.res = "Disconnected" /\ last.res = "Disconnected")

\* C9 as amended: disconnect() on a broker that holds no client (never
\* connected, or right after a disconnect() that returned Disconnected)
\* returns Disconnected and leaves the broker without a client.
C9_Idempotent ==
    (/\ last.op = "disconnect"
     /\ \/ last.pre = None
        \/ prev.op = "disconnect" /\ prev.res = "Disconnected")
        => (last.res = "Disconnected" /\ last.pre = None /\ broker_client = None)

\* a connected broker disconnected twice in a row
C9_Witness ==
    /\ prev.op = "disconnect" /\ prev.pre # None /\ prev.res = "Disconnected"
    /\ last.op = "disconnect" /\ last.res = "Disconnected"

\* C10: publish() returns Published only when the underlying client accepted
\* the publish: a raise or a non-success result code comes back as a Problem.
C10_PublishedMeansAccepted ==
    (last.op = "publish" /\ last.res = "Published") => last.under = "rc0"


\* The Results each operation can return: Right(marker) or Left(Problem)
ResultsOf(op) ==
    CASE op = "connect"    -> {"Connected", "ConnectProblem"}
      [] op = "publish"    -> {"Published", "NotConnected", "PublishProblem"}
      [] op = "disconnect" -> {"Disconnected", "DisconnectProblem"}
      [] OTHER             -> {"none"}

\* C11: for every sequence of connect / publish / disconnect calls on a
\* PahoBroker and every failure of the underlying client, each call returns
\* a Result, Right(marker) or Left(Problem); no exception reaches the caller.
C11_AlwaysAResult ==
    /\ last.res \in ResultsOf(last.op)
    /\ prev.res \in ResultsOf(prev.op)
    /\ (last.op = "connect" /\ last.under # "ok") => last.res = "ConnectProblem"
    /\ (last.op = "publish" /\ last.under = "raises") => last.res = "PublishProblem"
    /\ (last.op = "disconnect" /\ last.under \in {"loop_stop_raises", "disconnect_raises"})
          => last.res = "DisconnectProblem"

\* the client raised in publish right after it raised in disconnect, and
\* both calls came back with a Problem
C11_Witness ==
    /\ prev.op = "disconnect" /\ prev.under = "disconnect_raises"
    /\ prev.res = "DisconnectProblem"
    /\ last.op = "publish" /\ last.under = "raises"
    /\ last.res = "PublishProblem"

\* The number of sentinels in a sequence of queue items
RECURSIVE Sentinels(_)
Sentinels(q) ==
    IF q = <<>> THEN 0
    ELSE (IF Head(q) = Sentinel THEN 1 ELSE 0) + Sentinels(Tail(q))

\* The sum of f over the workers in S
RECURSIVE SumOver(_, _)
SumOver(f, S) ==
    IF S = {} THEN 0
    ELSE LET w == CHOOSE x \in S : TRUE IN f[w] + SumOver(f, S \ {w})

\* The positions of the thread inside Bridge.stop, and after it
StopStages == {"markers", "join", "disconnect", "stopped"}

\* C12: Bridge.stop() works in the order cancel the timer, put one marker
\* per worker, join every worker, disconnect the broker.  So the timer is
\* cancelled before any marker is on the queue, all NumWorkers markers have
\* been put before any join, every worker is joined before the broker is
\* disconnected, the broker is not disconnected earlier, and no read task
\* ever stands behind a marker in the queue.
C12_StopOrder ==
    /\ bpc \in StopStages => ~timer_on
    /\ bpc \in {"join", "disconnect", "stopped"}
          => Sentinels(queue) + SumOver(markers, Workers) = NumWorkers
    /\ bpc \in {"disconnect", "stopped"} => joined = Workers
    /\ bpc \in {"markers", "join"} => joined \subseteq 1..(bi - 1)
    /\ bpc \in {"markers", "join", "disconnect"} => established
    /\ bpc \notin StopStages => Sentinels(queue) = 0
    /\ \A i \in 1..(Len(queue) - 1) :
          queue[i] = Sentinel => queue[i + 1] = Sentinel

\* Stop has put its markers behind tasks still queued, and is joining
C12_Witness ==
    /\ bpc = "join"
    /\ Len(queue) > NumWorkers
    /\ queue[1] # Sentinel
    /\ queue[Len(queue)] = Sentinel

\* A step that fires no tick: the tick count stays and whatever the step
\* puts on the queue is a marker
NoTick ==
    /\ ticks' = ticks
    /\ \A i \in 1..Len(queue') : i > Len(queue) => queue'[i] = Sentinel

\* C13: once the timer's stop() has completed, no tick fires: in every step
\* taken after it the tick count stays and no task is put on the queue.
C13_NoTickAfterStop == [][(bpc \in StopStages) => NoTick]_vars

\* The timer was stopped with ticks fired and more ticks to come
C13_Witness ==
    /\ bpc \in StopStages
    /\ ticks > 0
    /\ ticks < MaxTicks
    /\ ~timer_on

\* C14: when the broker's connect() returns a Problem inside Bridge.start,
\* start ends with that Problem and the bridge is Idle, with no worker
\* thread started, no timer and nothing enqueued; the bridge goes on to
\* start workers and the timer only with a connected broker.
C14_ConnectProblemIsFatal ==
    /\ bpc = "start_failed" =>
          /\ bstate = "Idle"
          /\ ~established
          /\ \A w \in Workers : pc[w] = "init"
          /\ ~timer_on
          /\ ticks = 0
          /\ queue = <<>>
    /\ bpc \in {"start_workers", "start_timer", "running"} => established
    /\ bstate = "Running" => established

\* start() failed in client.connect, after self._client was assigned
C14_Witness ==
    /\ bpc = "start_failed"
    /\ broker_client # None
    /\ ~mq[broker_client].sock

\* The markers Bridge.stop has put so far
MarkersPut ==
    IF bpc = "markers" THEN bi - 1
    ELSE IF bpc \in {"join", "disconnect", "stopped"} THEN NumWorkers
    ELSE 0

\* The workers that left their loop through a marker
StoppedByMarker ==
    {w \in Workers : pc[w] \in {"close", "done"} /\ exc[w] = "none"}

\* C15: with the workers racing for queue.get(), every item put on the
\* queue is still queued or was returned by exactly one get; every marker
\* is still queued or was dequeued by exactly one worker, no worker gets
\* two, and k dequeued markers have stopped exactly k workers, so that N
\* workers in their loops are stopped by N markers and no fewer.  When all
\* workers are joined, the markers left on the queue are those of the
\* workers that ended by an exception.
C15_OneConsumerPerItem ==
    /\ dequeued + Len(queue) = enqueued
    /\ Sentinels(queue) + SumOver(markers, Workers) = MarkersPut
    /\ \A w \in Workers : markers[w] <= 1
    /\ Cardinality(StoppedByMarker) = SumOver(markers, Workers)
    /\ bpc \in {"disconnect", "stopped"} =>
          Sentinels(queue) = Cardinality({w \in Workers : exc[w] # "none"})

\* Both workers ran tasks, raced for the markers and got one each
C15_Witness ==
    /\ \A w \in Workers : ran[w] /\ markers[w] = 1
    /\ queue = <<>>
    /\ dequeued = enqueued
    /\ enqueued > NumWorkers

\* How often item t stands in a sequence of queue items
RECURSIVE CountIn(_, _)
CountIn(q, t) ==
    IF q = <<>> THEN 0
    ELSE (IF Head(q) = t THEN 1 ELSE 0) + CountIn(Tail(q), t)

\* The tasks for tag t that are queued or being executed
Pending(t) ==
    CountIn(queue, t) + Cardinality({w \in Workers : pc[w] = "exec" /\ task[w] = t})

\* Every worker is in its loop, waiting in get(), and nothing is queued
AllIdle ==
    /\ queue = <<>>
    /\ \A w \in Workers : pc[w] = "get" /\ exc[w] = "none"

TasksQueued == Len(queue) - Sentinels(queue)

\* C17 as stated: with the workers waiting when the tasks were enqueued
\* once, every worker has received at least one task by the time the queue
\* is drained.
C17_Original ==
    (ticks = 1 /\ idle_at_tick = Workers /\ AllIdle)
        => \A w \in Workers : got[w] >= 1

\* C17, amended: every task enqueued is received by exactly one worker, and
\* together the workers receive all of them once the queue is drained; a
\* worker that ran a task had received one.  How the tasks are divided is
\* left to the scheduling of the threads.
C17_EveryTaskToOneWorker ==
    /\ SumOver(got, Workers) + TasksQueued = ticks * NumTags
    /\ \A w \in Workers : ran[w] => got[w] >= 1
    /\ \A w \in Workers : got[w] <= ticks * NumTags

\* All workers waited when the tasks were enqueued, and the first of them
\* received every task while the others went on waiting
C17_Witness ==
    /\ ticks = 1
    /\ idle_at_tick = Workers
    /\ AllIdle
    /\ got[1] = NumTags
    /\ \A w \in Workers \ {1} : got[w] = 0

\* The success marker of each broker operation
Marker(op) ==
    CASE op = "connect"    -> "Connected"
      [] op = "publish"    -> "Published"
      [] op = "disconnect" -> "Disconnected"

\* C18: ConsoleBroker always succeeds: whatever the sequence of connect,
\* publish and disconnect calls, every call returned Right of its own
\* marker, and every publish printed one "<topic>: <message>" line.
C18_ConsoleAlwaysSucceeds ==
    \A i \in 1..Len(console_log) :
        /\ console_log[i].res = Marker(console_log[i].op)
        /\ console_log[i].op = "publish" =>
              \E topic \in Topics, message \in Messages :
                  console_log[i].line = <<topic, ": ", message>>

\* publish, then disconnect, on a console broker that was never connected
C18_Witness ==
    /\ Len(console_log) >= 2
    /\ console_log[1].op = "publish"
    /\ console_log[2].op = "disconnect"
    /\ \A i \in 1..Len(console_log) : console_log[i].op # "connect"

\* A step in which stop() is called on a worker leaves the queue, every
\* thread and every connection as they were
StopFrame ==
    (stop_req' # stop_req) =>
        UNCHANGED <<queue, workerVars, opcVars, enqueued, dequeued, joined>>

\* A worker that was started, has had stop() called, has dequeued no marker
\* and has seen no exception is connecting, waiting in get() or executing
KeepsRunning ==
    \A w \in Workers :
        (stop_req[w] # "no" /\ pc[w] # "init" /\ markers[w] = 0 /\ exc[w] = "none")
            => pc[w] \in {"connect", "get", "exec"}

\* C20: Worker.stop() performs no queue action: the call leaves the queue,
\* the worker's thread and its connection unchanged, and a worker that has
\* had stop() called but has dequeued no marker stays in its loop.
C20_StopChangesNothing == [][StopFrame]_vars /\ []KeepsRunning

\* stop() was called on a worker waiting in get() with nothing queued; it
\* has since dequeued a task and is executing it
C20_Witness ==
    \E w \in Workers :
        /\ stop_req[w] = "waiting"
        /\ pc[w] = "exec"
        /\ task[w] \in Tags
        /\ markers[w] = 0

\* The read tasks the workers have dequeued so far
TasksTaken == dequeued - SumOver(markers, Workers)

\* The workers whose thread ended by an exception
EndedByException == {w \in Workers : exc[w] # "none"}

\* C21 as stated: when Bridge.stop() returns the queue is empty and every
\* task the ticks enqueued has been dequeued and executed.
C21_Original ==
    bpc = "stopped" => (queue = <<>> /\ TasksTaken = NumTags * ticks)

\* A step never cancels a started task: a worker leaves task.execute only
\* by the step that completes it, and no step of Bridge.stop moves a worker
RunsToCompletion ==
    /\ \A w \in Workers :
          (pc[w] = "exec" /\ pc'[w] # "exec")
              => (task'[w] = 0 /\ ran'[w] /\ pc'[w] \in {"get", "close"})
    /\ (bpc \in StopStages \cup {"running"} /\ bpc' # bpc)
          => UNCHANGED <<pc, task>>

\* Tasks are dequeued once, in order, and drained by the workers that live
DrainedInOrder ==
    /\ TasksQueued + TasksTaken = NumTags * ticks
    /\ \A w \in Workers : task[w] # 0 <=> pc[w] = "exec"
    /\ SumOver(markers, Workers) > 0 => TasksQueued = 0
    /\ bpc = "stopped" =>
          /\ \A w \in Workers : pc[w] = "done" /\ task[w] = 0
          /\ Sentinels(queue) = Cardinality(EndedByException)
          /\ EndedByException # Workers => TasksQueued = 0
          /\ EndedByException = {} => queue = <<>>

\* C21, amended: a started task is never cancelled, every task is dequeued
\* at most once and executed by the worker that dequeued it, and no marker
\* is dequeued while a task is still queued.  When Bridge.stop() returns,
\* the queue holds one marker for each worker whose thread ended by an
\* exception, and tasks only if every worker ended that way; it is empty
\* when no worker did.
C21_DrainedBeforeExit == [][RunsToCompletion]_vars /\ []DrainedInOrder

\* stop() was invoked with a task in execution and others queued; all were
\* executed, every worker took its marker and the queue is empty
C21_Witness ==
    /\ bpc = "stopped"
    /\ stop_midtask
    /\ ticks = MaxTicks
    /\ queue = <<>>
    /\ TasksTaken = NumTags * MaxTicks
    /\ \A w \in Workers : markers[w] = 1 /\ ran[w]

\* A sentinel has been put on the queue
SentinelPut == Sentinels(queue) + SumOver(markers, Workers) > 0

\* C22: the sequence of the class docstring, start() then stop() then
\* join(), completes: once a started worker has had stop() called, its
\* join() returns, without anyone putting a sentinel on the queue.
C22_StopThenJoinCompletes ==
    \A w \in Workers :
        (stop_req[w] # "no" /\ pc[w] # "init") ~> (w \in joined \/ SentinelPut)

\* While a worker thread is running, and so able to call broker.publish,
\* the bridge's connect() has returned Connected and its disconnect() has
\* not been called; once it has, every worker thread has exited
PublishersConnected ==
    /\ \A w \in Workers :
          pc[w] \in {"connect", "get", "exec", "close"} =>
              /\ established
              /\ broker_client # None
              /\ bpc \in {"start_workers", "start_timer", "running",
                           "markers", "join"}
    /\ bpc \in {"disconnect", "stopped"} => \A w \in Workers : pc[w] = "done"

\* No worker takes a step once the bridge has disconnected the broker
QuietAfterDisconnect == (bpc = "stopped") => UNCHANGED <<workerVars, opcVars>>

\* C23: no worker calls broker.publish after the bridge has disconnected
\* the broker: every task.execute, and so every publish attempt, happens
\* after the broker's successful connect() and before its disconnect(),
\* because stop() joins every worker first.
C23_PublishWhileConnected == [][QuietAfterDisconnect]_vars /\ []PublishersConnected

\* The bridge has stopped and disconnected after both workers executed
\* tasks, one of them still executing when stop() was invoked
C23_Witness ==
    /\ bpc = "stopped"
    /\ ~established
    /\ stop_midtask
    /\ \A w \in Workers : ran[w]

\* The paho clients whose network loop was started and not stopped
LoopRunning == {c \in ClientIds : mq[c].loop = "started"}

\* C24: after any sequence of connect, publish and disconnect calls, at
\* most one paho client has a started network loop that was not stopped,
\* and it is the client self._client refers to.
C24_OneLiveClient ==
    /\ Cardinality(LoopRunning) <= 1
    /\ \A c \in LoopRunning : c = broker_client
====
